---- MODULE Spec2Model ----
(***************************************************************************)
(* SpiceLinK (src/app.py): the classification page of a Streamlit app.     *)
(* The model covers the model registry (MODEL_OPTIONS), the cached loader  *)
(* load_model (st.cache_resource, max_entries=4), the classify handler and *)
(* the label resolution (argmax + CLASS_MAPPING).                          *)
(*                                                                         *)
(* Three specifications share the definitions:                             *)
(*   Spec      - one session running classify step by step, the model     *)
(*               artifacts on disk changing between steps;                 *)
(*   SpecCache - a sequence of load_model(path) calls over five paths;     *)
(*   SpecConc  - sessions calling load_model concurrently, at the          *)
(*               granularity of the cache's lock operations.               *)
(***************************************************************************)
EXTENDS Integers, Sequences, FiniteSets

\* ─── Bounds ────────────────────────────────────────────────────────────────
\* values a forward pass may put in one cell of the distribution: 0..MaxProb
MaxProb == 1
\* cap on the number of runs of the underlying load routine (SpecCache)
MaxLoads == 6
\* number of concurrent sessions (SpecConc)
NumThreads == 2

\* ─── Configuration (src/app.py:9-14, 26) ───────────────────────────────────
V1Path == "MobileNetV1_no_dropout.h5"
V2Path == "MobileNetV2_no_dropout.h5"

MODEL_OPTIONS == [MobileNetV1 |-> V1Path, MobileNetV2 |-> V2Path]

CLASS_MAPPING == [i \in 0..3 |->
    CASE i = 0 -> "Jahe" [] i = 1 -> "Kencur" [] i = 2 -> "Kunyit" [] i = 3 -> "Lengkuas"]

\* max_entries of st.cache_resource on load_model
max_entries == 4

\* the options of the selectbox at line 97: list(MODEL_OPTIONS.keys())
ModelNames == DOMAIN MODEL_OPTIONS

ConfiguredPaths == {MODEL_OPTIONS[n] : n \in DOMAIN MODEL_OPTIONS}

\* paths load_model may be called with: the configured ones and three others
Paths == ConfiguredPaths \cup {"a.h5", "b.h5", "c.h5"}

\* Python's None (load_model's result on failure); no exception; no message
None == <<>>

\* what st.file_uploader returns: nothing, a decodable image, undecodable bytes
Uploads == {"none", "image", "garbage"}

\* the 4-element outputs of a forward pass, indexed 0..3 as in numpy
Distributions == [0..3 -> 0..MaxProb]

Threads == 1..NumThreads

VARIABLES
    cache,        \* st.cache_resource's entries for load_model, least recently used first
    loads,        \* per path, the outcomes of the runs of tf.keras.models.load_model so far
    loadable,     \* the paths whose artifact on disk can be loaded now
    evictions,    \* number of entries the cache has discarded so far
    order,        \* the paths load_model was called with, least recently requested first
    returned,     \* per path, the values load_model has returned so far
    last,         \* the most recent load_model call of a sequential caller
    pc,           \* position of the session's script run inside classify
    model_name, model_path, model, uploaded,
    probs, idx, label, confidence,
    exc,          \* the exception that left classify, None if none
    st_error,     \* the st.error message shown in this run, None if none
    events,       \* the operations executed in this run of classify, in order
    tpc, tpath, tval, tret, lock,  \* concurrent callers of load_model
    tcold,        \* whether the path was uncached when the caller made its call
    tfirst        \* what the caller's first read of the cache found

vars == <<cache, loads, loadable, evictions, order, returned, last, pc, model_name,
          model_path, model, uploaded, probs, idx, label, confidence, exc, st_error,
          events, tpc, tpath, tval, tret, lock, tcold, tfirst>>

cacheVars == <<cache, loads, evictions, order, returned, last>>
runVars == <<pc, model_name, model_path, model, uploaded, probs, idx, label,
             confidence, exc, st_error, events>>
threadVars == <<tpc, tpath, tval, tret, lock, tcold, tfirst>>

\* ─── Model registry (src/app.py:98) ────────────────────────────────────────
\* MODEL_OPTIONS[model_name]: the path, or KeyError for a name that is no key
\* (the selectbox offers the keys only, so classify never takes that branch)
resolve(name) ==
    IF name \in DOMAIN MODEL_OPTIONS
    THEN [ok |-> TRUE, path |-> MODEL_OPTIONS[name], exc |-> None]
    ELSE [ok |-> FALSE, path |-> "", exc |-> <<"KeyError", name>>]

\* ─── The cache of st.cache_resource(max_entries=4) ─────────────────────────
Keys(c) == {c[i].key : i \in 1..Len(c)}

\* `key in cache`
Hit(c, key) == key \in Keys(c)

Entry(c, key) == c[CHOOSE i \in 1..Len(c) : c[i].key = key]

\* mutant: a read leaves the order alone (first in, first out)
Touch_fifo(c, key) == c

\* a read of an entry makes it the most recently used
Touch(c, key) == SelectSeq(c, LAMBDA e : e.key # key) \o <<Entry(c, key)>>

\* a write discards least recently used entries while the cache is full
Evict(c) == IF Len(c) >= max_entries THEN Tail(c) ELSE c

WriteResult(c, e) ==
    IF Hit(c, e.key)
    THEN SelectSeq(c, LAMBDA x : x.key # e.key) \o <<e>>
    ELSE Append(Evict(c), e)

\* ─── load_model's body (src/app.py:29-33) ──────────────────────────────────
\* tf.keras.models.load_model(path): a new model object, or an exception
tf_load(path, ld, lo) ==
    IF path \in lo
    THEN [ok |-> TRUE, obj |-> <<path, Len(ld[path]) + 1>>]
    ELSE [ok |-> FALSE, obj |-> <<"OSError", path>>]

\* try: return the model; except: st.error(...), return None
load_model_body(path, ld, lo) ==
    LET r == tf_load(path, ld, lo)
    IN  IF r.ok
        THEN [key |-> path, value |-> r.obj, msg |-> None]
        ELSE [key |-> path, value |-> None, msg |-> <<"Error loading model", r.obj>>]

\* mutant: the function without its cache decorator
load_model_uncached(path, c, ld, lo) ==
    LET e == load_model_body(path, ld, lo)
    IN  [hit |-> FALSE, value |-> e.value, msg |-> e.msg, cache |-> c,
         loads |-> [ld EXCEPT ![path] = Append(@, e.value)], evicted |-> {}]

\* the cached function called by one caller at a time: what it returns, shows
\* and leaves in the cache
load_model(path, c, ld, lo) ==
    IF Hit(c, path)
    THEN [hit |-> TRUE, value |-> Entry(c, path).value, msg |-> Entry(c, path).msg,
          cache |-> Touch(c, path), loads |-> ld,
          evicted |-> {}]
    ELSE LET e == load_model_body(path, ld, lo)
         IN  [hit |-> FALSE, value |-> e.value, msg |-> e.msg,
              cache |-> WriteResult(c, e),
              loads |-> [ld EXCEPT ![path] = Append(@, e.value)],
              evicted |-> Keys(c) \ Keys(WriteResult(c, e))]

TotalLoads(ld) == LET RECURSIVE Sum(_)
                      Sum(S) == IF S = {} THEN 0
                                ELSE LET p == CHOOSE x \in S : TRUE
                                     IN Len(ld[p]) + Sum(S \ {p})
                  IN Sum(Paths)

\* the request history kept beside the cache: path moves to the most recent end
Bump(o, path) == SelectSeq(o, LAMBDA x : x # path) \o <<path>>

\* the max_entries most recently requested paths
Recent(o) == {o[i] : i \in {j \in 1..Len(o) : j > Len(o) - max_entries}}

\* among the paths in keys, the least recently requested one
LeastRecent(o, keys) ==
    IF \E i \in 1..Len(o) : o[i] \in keys
    THEN o[CHOOSE i \in 1..Len(o) :
               o[i] \in keys /\ \A j \in 1..(i - 1) : o[j] \notin keys]
    ELSE ""

NoCall == [path |-> "", hit |-> FALSE, ran |-> FALSE, value |-> None, evicted |-> {},
           lru |-> "", recent |-> FALSE, full |-> FALSE]

\* the bookkeeping of a sequential call of load_model(path) with result r
Completed(path, r) ==
    /\ cache' = r.cache
    /\ loads' = r.loads
    /\ evictions' = evictions + Cardinality(r.evicted)
    /\ order' = Bump(order, path)
    /\ returned' = [returned EXCEPT ![path] = @ \cup {r.value}]
    /\ last' = [path |-> path, hit |-> r.hit, ran |-> r.loads # loads,
                value |-> r.value, evicted |-> r.evicted,
                lru |-> LeastRecent(order, Keys(cache)),
                recent |-> path \in Recent(order),
                full |-> Cardinality(Keys(cache)) = max_entries]

\* ─── Initial state ─────────────────────────────────────────────────────────
InitCache ==
    /\ cache = <<>>
    /\ loads = [p \in Paths |-> <<>>]
    /\ evictions = 0
    /\ order = <<>>
    /\ returned = [p \in Paths |-> {}]
    /\ last = NoCall

InitRun ==
    /\ pc = "idle"
    /\ model_name = ""
    /\ model_path = ""
    /\ model = None
    /\ uploaded = "none"
    /\ probs = None
    /\ idx = -1
    /\ label = ""
    /\ confidence = -1
    /\ exc = None
    /\ st_error = None
    /\ events = <<>>

InitThreads ==
    /\ tpc = [t \in Threads |-> "idle"]
    /\ tpath = [t \in Threads |-> ""]
    /\ tval = [t \in Threads |-> None]
    /\ tret = [t \in Threads |-> None]
    /\ lock = [p \in ConfiguredPaths |-> 0]
    /\ tcold = [t \in Threads |-> FALSE]
    /\ tfirst = [t \in Threads |-> ""]

Init ==
    /\ InitCache /\ InitRun /\ InitThreads
    /\ loadable \in SUBSET ConfiguredPaths

\* ─── The artifacts on disk ─────────────────────────────────────────────────
\* a configured model file appears, is repaired, is removed or is corrupted
ArtifactChange(p) ==
    /\ loadable' = IF p \in loadable THEN loadable \ {p} ELSE loadable \cup {p}
    /\ UNCHANGED <<cacheVars, runVars, threadVars>>

\* ─── classify (src/app.py:92-126), one session ─────────────────────────────
\* lines 97-98: a new script run selects a model name and resolves its path
Select(name) ==
    /\ pc \in {"idle", "returned", "raised"}
    /\ LET r == resolve(name)
       IN  /\ model_name' = name
           /\ model_path' = r.path
           /\ exc' = r.exc
           /\ pc' = IF r.ok THEN "load_model" ELSE "raised"
    /\ model' = None
    /\ uploaded' = "none"
    /\ probs' = None
    /\ idx' = -1
    /\ label' = ""
    /\ confidence' = -1
    /\ st_error' = None
    /\ events' = <<"resolve">>
    /\ UNCHANGED <<cacheVars, loadable, threadVars>>

\* mutant: the None check is missing
AfterLoad_unchecked(m) == "file_uploader"

\* lines 102-103: if model is None: return
AfterLoad(m) == IF m = None THEN "returned" ELSE "file_uploader"

\* lines 101-103: model = load_model(model_path)
LoadModel ==
    /\ pc = "load_model"
    /\ LET r == load_model(model_path, cache, loads, loadable)
       IN  /\ model' = r.value
           /\ st_error' = r.msg
           /\ Completed(model_path, r)
           /\ events' = events \o (IF r.hit THEN <<"load_model">>
                                   ELSE <<"load_model", "tf_load">>)
           /\ pc' = AfterLoad(r.value)
    /\ UNCHANGED <<loadable, model_name, model_path, uploaded, probs, idx, label,
                   confidence, exc, threadVars>>

\* mutant: the check for a missing upload is missing
AfterUpload_unchecked(u) == "load_img"

\* lines 107-109: if not uploaded: st.info(...); return
AfterUpload(u) == IF u = "none" THEN "returned" ELSE "load_img"

\* lines 106-109: the file uploader
FileUploader(u) ==
    /\ pc = "file_uploader"
    /\ uploaded' = u
    /\ events' = Append(events, "file_uploader")
    /\ pc' = AfterUpload(u)
    /\ UNCHANGED <<cacheVars, loadable, model_name, model_path, model, probs, idx,
                   label, confidence, exc, st_error, threadVars>>

\* mutant: undecodable bytes are passed on as an image
load_img_lenient(u) ==
    IF u = "none" THEN [ok |-> FALSE, exc |-> <<"DecodeError", u>>]
    ELSE [ok |-> TRUE, exc |-> None]

\* line 112: load_img decodes the upload or raises
load_img(u) ==
    IF u = "image" THEN [ok |-> TRUE, exc |-> None]
    ELSE [ok |-> FALSE, exc |-> <<"DecodeError", u>>]

\* lines 112-114: preprocessing
Preprocess ==
    /\ pc = "load_img"
    /\ events' = Append(events, "load_img")
    /\ LET r == load_img(uploaded)
       IN  /\ exc' = r.exc
           /\ pc' = IF r.ok THEN "predict" ELSE "raised"
    /\ UNCHANGED <<cacheVars, loadable, model_name, model_path, model, uploaded,
                   probs, idx, label, confidence, st_error, threadVars>>

\* np.argmax over indices 0..3: a linear scan keeping the first maximum
RECURSIVE ArgMaxScan(_, _, _)
ArgMaxScan(p, i, best) ==
    IF i > 3 THEN best
    ELSE ArgMaxScan(p, i + 1, IF p[i] > p[best] THEN i ELSE best)

\* mutant: the scan keeps the last maximum
RECURSIVE ArgMaxScanLast(_, _, _)
ArgMaxScanLast(p, i, best) ==
    IF i > 3 THEN best
    ELSE ArgMaxScanLast(p, i + 1, IF p[i] >= p[best] THEN i ELSE best)

argmax_last(p) == ArgMaxScanLast(p, 1, 0)

argmax(p) == ArgMaxScan(p, 1, 0)

\* lines 117-126: the forward pass succeeded with distribution d
Predict(d) ==
    /\ pc = "predict"
    /\ model # None
    /\ events' = events \o <<"predict", "success">>
    /\ probs' = d
    /\ idx' = argmax(d)
    /\ label' = CLASS_MAPPING[argmax(d)]
    /\ confidence' = d[argmax(d)]
    /\ pc' = "returned"
    /\ UNCHANGED <<cacheVars, loadable, model_name, model_path, model, uploaded,
                   exc, st_error, threadVars>>

\* line 117: the forward pass raised (model.predict of None raises as well)
PredictFails ==
    /\ pc = "predict"
    /\ events' = Append(events, "predict")
    /\ exc' = IF model = None THEN <<"AttributeError">> ELSE <<"InferenceError">>
    /\ pc' = "raised"
    /\ UNCHANGED <<cacheVars, loadable, model_name, model_path, model, uploaded,
                   probs, idx, label, confidence, st_error, threadVars>>

Next ==
    \/ \E p \in ConfiguredPaths : ArtifactChange(p)
    \/ \E n \in ModelNames : Select(n)
    \/ LoadModel
    \/ \E u \in Uploads : FileUploader(u)
    \/ Preprocess
    \/ \E d \in Distributions : Predict(d)
    \/ PredictFails

Spec == Init /\ [][Next]_vars

\* ─── A sequence of load_model calls (src/app.py:26-33) ─────────────────────
\* load_model(path) called and returned; a call that would run the underlying
\* load routine is taken only while fewer than MaxLoads runs have happened
Call(path) ==
    /\ Hit(cache, path) \/ TotalLoads(loads) < MaxLoads
    /\ LET r == load_model(path, cache, loads, loadable)
       IN  Completed(path, r)
    /\ UNCHANGED <<loadable, runVars, threadVars>>

\* the configured artifacts may be unloadable; the other files load
InitCalls ==
    /\ InitCache /\ InitRun /\ InitThreads
    /\ \E S \in SUBSET ConfiguredPaths : loadable = (Paths \ ConfiguredPaths) \cup S

NextCache ==
    \/ \E p \in Paths : Call(p)
    \/ \E p \in ConfiguredPaths : ArtifactChange(p)

SpecCache == InitCalls /\ [][NextCache]_vars

\* ─── Concurrent callers of load_model (src/app.py:26, 101) ─────────────────
\* Each session's script run is a thread. A cached function reads the cache;
\* on a miss it takes the compute lock of the key, reads again, and only then
\* runs the function body and writes the result.
\* line 101 in session t
T_Call(t, path) ==
    /\ tpc[t] = "idle"
    /\ tpc' = [tpc EXCEPT ![t] = "read"]
    /\ tpath' = [tpath EXCEPT ![t] = path]
    /\ tval' = [tval EXCEPT ![t] = None]
    /\ tret' = [tret EXCEPT ![t] = None]
    /\ tcold' = [tcold EXCEPT ![t] = ~Hit(cache, path)]
    /\ tfirst' = [tfirst EXCEPT ![t] = ""]
    /\ UNCHANGED <<cacheVars, loadable, runVars, lock>>

\* first read of the cache, before any lock on the key
T_Read(t) ==
    /\ tpc[t] = "read"
    /\ IF Hit(cache, tpath[t])
       THEN /\ tret' = [tret EXCEPT ![t] = Entry(cache, tpath[t]).value]
            /\ returned' = [returned EXCEPT ![tpath[t]] = @ \cup {Entry(cache, tpath[t]).value}]
            /\ cache' = Touch(cache, tpath[t])
            /\ tpc' = [tpc EXCEPT ![t] = "done"]
            /\ tfirst' = [tfirst EXCEPT ![t] = "hit"]
       ELSE /\ tpc' = [tpc EXCEPT ![t] = "acquire"]
            /\ tfirst' = [tfirst EXCEPT ![t] = "miss"]
            /\ UNCHANGED <<cache, tret, returned>>
    /\ UNCHANGED <<loads, evictions, order, last, loadable, runVars, tpath, tval, lock, tcold>>

\* with cache.compute_value_lock(value_key)
T_Acquire(t) ==
    /\ tpc[t] = "acquire"
    /\ lock[tpath[t]] = 0
    /\ lock' = [lock EXCEPT ![tpath[t]] = t]
    /\ tpc' = [tpc EXCEPT ![t] = "recheck"]
    /\ UNCHANGED <<cacheVars, loadable, runVars, tpath, tval, tret, tcold, tfirst>>

\* mutant: no second read under the lock
AfterRecheck_blind(c, key) == "compute"

\* what the holder of the lock does after the second read
AfterRecheck(c, key) == IF Hit(c, key) THEN "done" ELSE "compute"

\* the second read, under the lock: another thread may have computed the value
T_Recheck(t) ==
    /\ tpc[t] = "recheck"
    /\ tpc' = [tpc EXCEPT ![t] = AfterRecheck(cache, tpath[t])]
    /\ IF AfterRecheck(cache, tpath[t]) = "done"
       THEN /\ tret' = [tret EXCEPT ![t] = Entry(cache, tpath[t]).value]
            /\ returned' = [returned EXCEPT ![tpath[t]] = @ \cup {Entry(cache, tpath[t]).value}]
            /\ cache' = Touch(cache, tpath[t])
            /\ lock' = [lock EXCEPT ![tpath[t]] = 0]
       ELSE UNCHANGED <<cache, tret, returned, lock>>
    /\ UNCHANGED <<loads, evictions, order, last, loadable, runVars, tpath, tval, tcold, tfirst>>

\* the function body runs (lines 29-33)
T_Compute(t) ==
    /\ tpc[t] = "compute"
    /\ LET e == load_model_body(tpath[t], loads, loadable)
       IN  /\ tval' = [tval EXCEPT ![t] = e]
           /\ loads' = [loads EXCEPT ![tpath[t]] = Append(@, e.value)]
    /\ tpc' = [tpc EXCEPT ![t] = "write"]
    /\ UNCHANGED <<cache, evictions, order, returned, last, loadable, runVars, tpath, tret,
                   lock, tcold, tfirst>>

\* the result is written, the lock released and the value returned
T_Write(t) ==
    /\ tpc[t] = "write"
    /\ cache' = WriteResult(cache, tval[t])
    /\ evictions' = evictions + Cardinality(Keys(cache) \ Keys(WriteResult(cache, tval[t])))
    /\ tret' = [tret EXCEPT ![t] = tval[t].value]
    /\ returned' = [returned EXCEPT ![tpath[t]] = @ \cup {tval[t].value}]
    /\ lock' = [lock EXCEPT ![tpath[t]] = 0]
    /\ tpc' = [tpc EXCEPT ![t] = "done"]
    /\ UNCHANGED <<loads, order, last, loadable, runVars, tpath, tval, tcold, tfirst>>

\* the script run of session t ends; its next run may call again
T_End(t) ==
    /\ tpc[t] = "done"
    /\ tpc' = [tpc EXCEPT ![t] = "idle"]
    /\ UNCHANGED <<cacheVars, loadable, runVars, tpath, tval, tret, lock, tcold, tfirst>>

NextConc ==
    \/ \E p \in ConfiguredPaths : ArtifactChange(p)
    \/ \E t \in Threads, p \in ConfiguredPaths : T_Call(t, p)
    \/ \E t \in Threads : T_Read(t)
    \/ \E t \in Threads : T_Acquire(t)
    \/ \E t \in Threads : T_Recheck(t)
    \/ \E t \in Threads : T_Compute(t)
    \/ \E t \in Threads : T_Write(t)
    \/ \E t \in Threads : T_End(t)

SpecConc == Init /\ [][NextConc]_vars

\* ═══ Properties ════════════════════════════════════════════════════════════
InEvents(e) == \E i \in 1..Len(events) : events[i] = e

Count(e) == Cardinality({i \in 1..Len(events) : events[i] = e})

\* every occurrence of a is earlier in the run than every occurrence of b
Before(a, b) ==
    \A i, j \in 1..Len(events) : (events[i] = a /\ events[j] = b) => i < j

\* C1: as long as the cache has evicted nothing, the underlying load routine
\* has run at most once for each path and every call for a path has returned
\* one and the same value (for a loaded model: the same instance).
C1_LoadedOncePerPath ==
    evictions = 0 =>
        \A p \in Paths : Len(loads[p]) <= 1 /\ Cardinality(returned[p]) <= 1

\* a second call for a path returned the instance of the first, four paths cached
C1_Witness ==
    /\ evictions = 0
    /\ Len(cache) = max_entries
    /\ last.hit
    /\ last.value = <<last.path, 1>>
    /\ returned[last.path] = {<<last.path, 1>>}

\* C2 (as claimed): a request for a path whose artifact is loadable at the
\* time of the call gets a model, and a request that finds a stored failure
\* runs the underlying load routine again.
C2_NoNegativeCaching ==
    [][(pc = "load_model" /\ pc' # "load_model") =>
          /\ (model_path \in loadable => model' # None)
          /\ ((Hit(cache, model_path) /\ Entry(cache, model_path).value = None)
                 => Len(loads'[model_path]) = Len(loads[model_path]) + 1)]_vars

\* C5: when the underlying load fails in a run of classify, load_model raises
\* nothing, shows the error with its cause and returns None, and the run ends
\* there: no preprocessing, no forward pass.
UnderlyingLoadFailed ==
    /\ InEvents("tf_load")
    /\ Len(loads[model_path]) > 0
    /\ loads[model_path][Len(loads[model_path])] = None

C5_LoadFailureAborts ==
    UnderlyingLoadFailed =>
        /\ model = None
        /\ exc = None
        /\ st_error = <<"Error loading model", <<"OSError", model_path>>>>
        /\ pc = "returned"
        /\ ~InEvents("file_uploader") /\ ~InEvents("load_img") /\ ~InEvents("predict")
        /\ label = "" /\ probs = None

C5_Witness ==
    /\ UnderlyingLoadFailed
    /\ pc = "returned"
    /\ model = None
    /\ events = <<"resolve", "load_model", "tf_load">>

\* C7 (as claimed): no run of classify ends with an exception leaving it.
C7_NoExceptionLeavesClassify == pc # "raised"

\* C8: a run whose upload cannot be decoded ends in the decode error; the
\* forward pass does not run and no label or confidence is produced.
C8_DecodeFailureStopsRun ==
    (uploaded = "garbage" /\ InEvents("load_img")) =>
        /\ pc = "raised"
        /\ exc = <<"DecodeError", "garbage">>
        /\ ~InEvents("predict")
        /\ probs = None /\ idx = -1 /\ label = "" /\ confidence = -1

C8_Witness ==
    /\ uploaded = "garbage"
    /\ events = <<"resolve", "load_model", "file_uploader", "load_img">>
    /\ pc = "raised"
    /\ model # None

Labels == {"Jahe", "Kencur", "Kunyit", "Lengkuas"}

\* C9: the reported index is the lowest index holding the maximum of the
\* distribution, the label is CLASS_MAPPING of it (one of the four labels), the
\* confidence is the distribution's value there; CLASS_MAPPING is a bijection
\* from 0..3 onto the four labels.
C9_LabelResolution ==
    /\ \A i, j \in 0..3 : CLASS_MAPPING[i] = CLASS_MAPPING[j] => i = j
    /\ {CLASS_MAPPING[i] : i \in 0..3} = Labels
    /\ InEvents("success") =>
          /\ idx \in 0..3
          /\ \A j \in 0..3 : probs[j] <= probs[idx]
          /\ \A j \in 0..3 : j < idx => probs[j] < probs[idx]
          /\ label = CLASS_MAPPING[idx]
          /\ label \in Labels
          /\ confidence = probs[idx]

\* a tie between indices 1 and 3 resolved to index 1
C9_Witness ==
    /\ InEvents("success")
    /\ probs[1] = probs[3] /\ probs[0] < probs[1] /\ probs[2] < probs[1]
    /\ idx = 1
    /\ label = "Kencur"

\* C10: in a run, load_model is called before the uploader is consulted; a run
\* without an upload has loaded and cached the selected model and ends without
\* inference; the forward pass runs at most once, and only with a model and an
\* upload.
C10_RunOrdering ==
    /\ Before("load_model", "file_uploader")
    /\ Before("file_uploader", "load_img")
    /\ Before("load_img", "predict")
    /\ (InEvents("file_uploader") /\ uploaded = "none") =>
          /\ pc = "returned"
          /\ model # None
          /\ Hit(cache, model_path)
          /\ Entry(cache, model_path).value = model
          /\ ~InEvents("load_img") /\ ~InEvents("predict")
    /\ InEvents("predict") =>
          /\ InEvents("load_model") /\ InEvents("file_uploader")
          /\ model # None
          /\ uploaded # "none"
    /\ Count("predict") <= 1

\* a run without an upload that loaded the model from disk and stopped
C10_Witness ==
    /\ events = <<"resolve", "load_model", "tf_load", "file_uploader">>
    /\ uploaded = "none"
    /\ pc = "returned"
    /\ Hit(cache, model_path)

\* two callers that each called load_model for the same path while it was not
\* cached, and have both returned
Racing(t, u) ==
    /\ t # u
    /\ tpc[t] = "done" /\ tpc[u] = "done"
    /\ tpath[t] = tpath[u]
    /\ tcold[t] /\ tcold[u]

\* C3 (as claimed): racing callers cause exactly one run of the underlying load
\* routine and both receive a usable model, the same instance.
C3_BothGetUsableModel ==
    \A t, u \in Threads : Racing(t, u) =>
        /\ Len(loads[tpath[t]]) = 1
        /\ tret[t] # None /\ tret[u] # None
        /\ tret[t] = tret[u]

\* C3 (amended): racing callers cause exactly one run of the underlying load
\* routine and both receive its outcome: the same instance when that run
\* succeeded, None when it failed.
C3_SingleFlight ==
    \A t, u \in Threads : Racing(t, u) =>
        /\ Len(loads[tpath[t]]) = 1
        /\ tret[t] = loads[tpath[t]][1]
        /\ tret[u] = loads[tpath[t]][1]

\* both callers missed on their first read, one loaded, both hold the instance
C3_Witness ==
    \E t, u \in Threads :
        /\ Racing(t, u)
        /\ tfirst[t] = "miss" /\ tfirst[u] = "miss"
        /\ tret[t] = <<tpath[t], 1>> /\ tret[u] = <<tpath[t], 1>>

\* C4: the cache holds at most max_entries distinct paths, namely the most
\* recently requested ones (hits count as requests); a call that finds the
\* cache full and its path absent evicts exactly the least recently requested
\* cached path; a call runs the underlying load routine exactly when its path
\* is not among the max_entries most recently requested.
C4_CapacityAndLRU ==
    /\ Len(cache) <= max_entries
    /\ Cardinality(Keys(cache)) = Len(cache)
    /\ Keys(cache) = Recent(order)
    /\ last.path # "" =>
          /\ last.hit <=> last.recent
          /\ last.ran <=> ~last.recent
          /\ (last.full /\ ~last.recent) => last.evicted = {last.lru}
          /\ (~last.full \/ last.recent) => last.evicted = {}

\* a path evicted earlier is requested again with the cache full: it is loaded
\* a second time and the least recently requested path makes room for it
C4_Witness ==
    /\ last.full /\ ~last.hit /\ last.ran
    /\ Len(loads[last.path]) = 2
    /\ last.evicted = {last.lru}
    /\ last.lru # last.path
    /\ Len(cache) = max_entries

====
